---- MODULE Spec2Model ----
(***************************************************************************)
(* Model of graceful.Run (net/graceful/graceful.go): one invocation of the *)
(* lifecycle coordinator, the service goroutine it starts, the Server it   *)
(* drives, and the cancellation sources it waits on.                       *)
(***************************************************************************)
EXTENDS Integers, Sequences, FiniteSets, TLC

\* ------------------------------------------------------------------ bounds
MaxCleanups == 3
MaxRuns == 2

\* --------------------------------------------------------- program values
defaultShutdownTimeout == 5

Nil == "nil"
ErrServerClosed == "ErrServerClosed"
errListen == "errListen"
errShutdown == "errShutdown"
DeadlineExceeded == "DeadlineExceeded"

\* Config.ShutdownTimeout values a caller may pass (seconds).
TimeoutChoices == {-1, 0, 2, defaultShutdownTimeout}

\* A cleanup is modelled by whether it panics; cleanup i appends i to the
\* shared log when called and, if it panics, panics with value i.
CleanupLists == UNION {[1..n -> BOOLEAN] : n \in 0..MaxCleanups}

\* The cfg argument of Run: nil, or a Config value.
NilConfig == [isNil |-> TRUE, ShutdownTimeout |-> 0, Cleanups |-> <<>>]
Config == {NilConfig} \cup
          [isNil : {FALSE}, ShutdownTimeout : TimeoutChoices, Cleanups : CleanupLists]

\* Behaviours of the Server handed to Run.
ListenFuncs == {"blockUntilShutdown", "fail", "returnNil", "closed"}
ShutdownFuncs == {"honours", "ignores"}

NoPanic == 0

VARIABLES
    pc,            \* position of the coordinator (Run)
    branch,        \* select case taken at L91-95: "none", "serverErr", "ctxDone"
    gpc,           \* position of the service goroutine (L84-89)
    cfg,           \* the caller's cfg argument
    listenFunc,    \* behaviour of srv.ListenAndServe
    shutdownFunc,  \* behaviour of srv.Shutdown
    parentDone,    \* parent context cancelled
    sigRecv,       \* SIGINT/SIGTERM delivered while registered
    sigRegistered, \* signal.NotifyContext registration active (until stop())
    cancelledAt,   \* positions of both threads when ctx first became done
    chanBuf,       \* buffered values of serverErr (capacity 1)
    chanClosed,    \* serverErr closed
    lsRet,         \* value returned by ListenAndServe
    timeout,       \* local timeout (L97-100)
    sdCtx,         \* shutdownCtx: "none", "active", "expired", "cancelled"
    elapsed,       \* seconds elapsed since shutdownCtx was created
    sdState,       \* the Shutdown call: "idle", "running", "returned"
    sdCalls,       \* number of Shutdown invocations
    shutdownErr,   \* local shutdownErr (L106)
    srvErr,        \* local srvErr (L110)
    idx,           \* 1-based position of the range loop in cleanup
    running,       \* a cleanup fn is executing
    called,        \* log of the cleanups called, in call order
    panicVal,      \* cleanup's local panicVal
    result,        \* error value returned by Run
    raised,        \* panic value Run terminated with
    outcome,       \* "none", "returned", "panicked"
    entry,         \* entry point running: "graceful.Run", "httpx.Run", "httpx.RunWithContext"
    sends,         \* number of sends on serverErr
    closes,        \* number of close(serverErr) calls
    recvs,         \* number of receives from serverErr by the coordinator
    runs,          \* number of invocations of the entry point so far
    goStarted,     \* number of service goroutines started
    lsCalls        \* number of ListenAndServe calls

vars == <<pc, branch, gpc, cfg, listenFunc, shutdownFunc, parentDone, sigRecv,
          sigRegistered, cancelledAt, chanBuf, chanClosed, lsRet, timeout,
          sdCtx, elapsed, sdState, sdCalls, shutdownErr, srvErr, idx, running,
          called, panicVal, result, raised, outcome, entry, sends, closes,
          recvs, runs, goStarted, lsCalls>>

\* ---------------------------------------------------------------- helpers

\* ctx of signal.NotifyContext(parent, SIGINT, SIGTERM): done when the parent
\* is done or a registered signal arrived.
CtxDone == parentDone \/ sigRecv

NotCancelled == [pc |-> "none", gpc |-> "none"]

\* cfg after `if cfg == nil { cfg = &Config{} }`.
EffConfig(c) == IF c.isNil THEN [isNil |-> FALSE, ShutdownTimeout |-> 0, Cleanups |-> <<>>] ELSE c

\* timeout := defaultShutdownTimeout; if cfg.ShutdownTimeout > 0 { ... }
EffTimeout_ZeroOnly(c) ==
    IF EffConfig(c).ShutdownTimeout # 0 THEN EffConfig(c).ShutdownTimeout
    ELSE defaultShutdownTimeout
EffTimeout(c) ==
    IF EffConfig(c).ShutdownTimeout > 0 THEN EffConfig(c).ShutdownTimeout
    ELSE defaultShutdownTimeout

Cleanups == EffConfig(cfg).Cleanups

\* errors.Is(err, http.ErrServerClosed)
IsServerClosed_Never(err) == FALSE
IsServerClosed_OrNil(err) == err = ErrServerClosed \/ err = Nil
IsServerClosed(err) == err = ErrServerClosed

\* A receive on serverErr can proceed: a value is buffered or the channel is closed.
CanRecv == chanBuf # <<>> \/ chanClosed

\* The value a receive yields: the buffered value, or nil from a closed channel.
RecvValue == IF chanBuf # <<>> THEN Head(chanBuf) ELSE Nil

RecvRest == IF chanBuf # <<>> THEN Tail(chanBuf) ELSE chanBuf

\* if srvErr != nil { return srvErr }; return shutdownErr
FinalResult_NoDrain(se, sde) == sde
FinalResult_ShutdownFirst(se, sde) == IF sde # Nil THEN sde ELSE se
FinalResult_ServiceOnly(se, sde) == se
FinalResult(se, sde) == IF se # Nil THEN se ELSE sde

\* if r := recover(); r != nil && panicVal == nil { panicVal = r }
RecordPanic_Last(pv, r) == IF r # NoPanic THEN r ELSE pv
RecordPanic(pv, r) == IF r # NoPanic /\ pv = NoPanic THEN r ELSE pv

\* for _, fn := range fns: the element visited by the k-th iteration of n.
RangeIndex_Reverse(k, n) == n + 1 - k
RangeIndex(k, n) == k

\* context.WithoutCancel(ctx): the derived context is not done, whatever the
\* state of ctx.
WithoutCancel_Inherit(done) == done
WithoutCancel(done) == FALSE

\* deferred cancel() of shutdownCtx: no effect on a context that already expired.
CancelCtx(s) == IF s = "active" THEN "cancelled" ELSE s

\* ------------------------------------------------------------------- Init
Init ==
    /\ pc = "Starting"
    /\ branch = "none"
    /\ gpc = "notstarted"
    /\ cfg \in Config
    /\ listenFunc \in ListenFuncs
    /\ shutdownFunc \in ShutdownFuncs
    /\ parentDone \in BOOLEAN
    /\ sigRecv = FALSE
    /\ sigRegistered = FALSE
    /\ cancelledAt = IF parentDone THEN [pc |-> "Starting", gpc |-> "notstarted"]
                     ELSE NotCancelled
    /\ chanBuf = <<>>
    /\ chanClosed = FALSE
    /\ lsRet = Nil
    /\ timeout = 0
    /\ sdCtx = "none"
    /\ elapsed = 0
    /\ sdState = "idle"
    /\ sdCalls = 0
    /\ shutdownErr = Nil
    /\ srvErr = Nil
    /\ idx = 1
    /\ running = FALSE
    /\ called = <<>>
    /\ panicVal = NoPanic
    /\ result = Nil
    /\ raised = NoPanic
    /\ outcome = "none"
    /\ entry = "graceful.Run"
    /\ sends = 0
    /\ closes = 0
    /\ recvs = 0
    /\ runs = 1
    /\ goStarted = 0
    /\ lsCalls = 0

\* ------------------------------------------------------ cancellation sources

\* The caller cancels the parent context.
CancelParent ==
    /\ ~parentDone
    /\ entry # "httpx.Run"
    /\ parentDone' = TRUE
    /\ cancelledAt' = IF CtxDone THEN cancelledAt ELSE [pc |-> pc, gpc |-> gpc]
    /\ UNCHANGED <<pc, branch, gpc, cfg, listenFunc, shutdownFunc, sigRecv,
                   sigRegistered, chanBuf, chanClosed, lsRet, timeout, sdCtx,
                   elapsed, sdState, sdCalls, shutdownErr, srvErr, idx, running,
                   called, panicVal, result, raised, outcome,
                   entry, sends, closes, recvs, runs, goStarted, lsCalls>>

\* SIGINT or SIGTERM is delivered while the NotifyContext registration is active.
Signal ==
    /\ sigRegistered
    /\ ~sigRecv
    /\ sigRecv' = TRUE
    /\ cancelledAt' = IF CtxDone THEN cancelledAt ELSE [pc |-> pc, gpc |-> gpc]
    /\ UNCHANGED <<pc, branch, gpc, cfg, listenFunc, shutdownFunc, parentDone,
                   sigRegistered, chanBuf, chanClosed, lsRet, timeout, sdCtx,
                   elapsed, sdState, sdCalls, shutdownErr, srvErr, idx, running,
                   called, panicVal, result, raised, outcome,
                   entry, sends, closes, recvs, runs, goStarted, lsCalls>>

\* ---------------------------------------------------------- service goroutine

\* The goroutine is scheduled and calls srv.ListenAndServe().
GoListen ==
    /\ gpc = "spawned"
    /\ gpc' = "listening"
    /\ lsCalls' = lsCalls + 1
    /\ UNCHANGED <<pc, branch, cfg, listenFunc, shutdownFunc, parentDone, sigRecv,
                   sigRegistered, cancelledAt, chanBuf, chanClosed, lsRet, timeout,
                   sdCtx, elapsed, sdState, sdCalls, shutdownErr, srvErr, idx,
                   running, called, panicVal, result, raised, outcome,
                   entry, sends, closes, recvs, runs, goStarted>>

\* ListenAndServe returns v.
LSReturn(v) ==
    /\ gpc = "listening"
    /\ \/ listenFunc = "blockUntilShutdown" /\ v = ErrServerClosed /\ sdCalls > 0
       \/ listenFunc = "fail" /\ v = errListen
       \/ listenFunc = "returnNil" /\ v = Nil
       \/ listenFunc = "closed" /\ v = ErrServerClosed
    /\ lsRet' = v
    /\ gpc' = "returned"
    /\ UNCHANGED <<pc, branch, cfg, listenFunc, shutdownFunc, parentDone, sigRecv,
                   sigRegistered, cancelledAt, chanBuf, chanClosed, timeout,
                   sdCtx, elapsed, sdState, sdCalls, shutdownErr, srvErr, idx,
                   running, called, panicVal, result, raised, outcome,
                   entry, sends, closes, recvs, runs, goStarted, lsCalls>>

\* A goroutine sending on an unbuffered serverErr: the send completes only
\* while the coordinator is waiting in a receive.
GoSend_Unbuffered ==
    /\ gpc = "returned"
    /\ IF ~IsServerClosed(lsRet)
       THEN /\ pc \in {"Running", "ShutdownOk", "ShutdownFailed"}
            /\ Len(chanBuf) < 1
            /\ chanBuf' = Append(chanBuf, lsRet)
       ELSE chanBuf' = chanBuf
    /\ gpc' = "closing"
    /\ sends' = IF ~IsServerClosed(lsRet) THEN sends + 1 ELSE sends
    /\ UNCHANGED <<pc, branch, cfg, listenFunc, shutdownFunc, parentDone,
                   sigRecv, sigRegistered, cancelledAt, chanClosed, lsRet,
                   timeout, sdCtx, elapsed, sdState, sdCalls, shutdownErr,
                   srvErr, idx, running, called, panicVal, result, raised,
                   outcome, entry, closes, recvs, runs, goStarted, lsCalls>>

\* if err := ...; !errors.Is(err, http.ErrServerClosed) { serverErr <- err }
GoSend ==
    /\ gpc = "returned"
    /\ IF ~IsServerClosed(lsRet)
       THEN /\ Len(chanBuf) < 1
            /\ chanBuf' = Append(chanBuf, lsRet)
       ELSE chanBuf' = chanBuf
    /\ gpc' = "closing"
    /\ sends' = IF ~IsServerClosed(lsRet) THEN sends + 1 ELSE sends
    /\ UNCHANGED <<pc, branch, cfg, listenFunc, shutdownFunc, parentDone, sigRecv,
                   sigRegistered, cancelledAt, chanClosed, lsRet, timeout,
                   sdCtx, elapsed, sdState, sdCalls, shutdownErr, srvErr, idx,
                   running, called, panicVal, result, raised, outcome,
                   entry, closes, recvs, runs, goStarted, lsCalls>>

\* A goroutine that exits without closing serverErr.
GoClose_NoClose ==
    /\ gpc = "closing"
    /\ gpc' = "exited"
    /\ UNCHANGED <<pc, branch, cfg, listenFunc, shutdownFunc, parentDone, sigRecv,
                   sigRegistered, cancelledAt, chanBuf, chanClosed, lsRet, timeout,
                   sdCtx, elapsed, sdState, sdCalls, shutdownErr, srvErr, idx,
                   running, called, panicVal, result, raised, outcome,
                   entry, sends, closes, recvs, runs, goStarted, lsCalls>>

\* close(serverErr)
GoClose ==
    /\ gpc = "closing"
    /\ chanClosed' = TRUE
    /\ closes' = closes + 1
    /\ gpc' = "exited"
    /\ UNCHANGED <<pc, branch, cfg, listenFunc, shutdownFunc, parentDone, sigRecv,
                   sigRegistered, cancelledAt, chanBuf, lsRet, timeout,
                   sdCtx, elapsed, sdState, sdCalls, shutdownErr, srvErr, idx,
                   running, called, panicVal, result, raised, outcome,
                   entry, sends, recvs, runs, goStarted, lsCalls>>

\* ------------------------------------------------------------- coordinator

\* Run without its own channel: serverErr outlives the invocation.
RunStart_SharedChan ==
    /\ pc = "Starting"
    /\ pc' = "Running"
    /\ sigRegistered' = TRUE
    /\ gpc' = "spawned"
    /\ goStarted' = goStarted + 1
    /\ UNCHANGED <<branch, cfg, listenFunc, shutdownFunc, parentDone, sigRecv,
                   cancelledAt, chanBuf, chanClosed, lsRet, timeout, sdCtx,
                   elapsed, sdState, sdCalls, shutdownErr, srvErr, idx, running,
                   called, panicVal, result, raised, outcome,
                   entry, sends, closes, recvs, runs, lsCalls>>

\* Run up to the select: NotifyContext, serverErr := make(chan error, 1), go func.
RunStart ==
    /\ pc = "Starting"
    /\ pc' = "Running"
    /\ sigRegistered' = TRUE
    /\ chanBuf' = <<>>
    /\ chanClosed' = FALSE
    /\ sends' = 0
    /\ closes' = 0
    /\ recvs' = 0
    /\ gpc' = "spawned"
    /\ goStarted' = goStarted + 1
    /\ UNCHANGED <<branch, cfg, listenFunc, shutdownFunc, parentDone, sigRecv,
                   cancelledAt, lsRet, timeout, sdCtx,
                   elapsed, sdState, sdCalls, shutdownErr, srvErr, idx, running,
                   called, panicVal, result, raised, outcome,
                   entry, runs, lsCalls>>

\* A mis-written failure case that does not return and falls out of the select.
SelectServerErr_FallThrough ==
    /\ pc = "Running"
    /\ CanRecv
    /\ branch' = "serverErr"
    /\ result' = RecvValue
    /\ chanBuf' = RecvRest
    /\ recvs' = recvs + 1
    /\ pc' = "CancelReceived"
    /\ UNCHANGED <<gpc, cfg, listenFunc, shutdownFunc, parentDone, sigRecv,
                   sigRegistered, cancelledAt, chanClosed, lsRet, timeout, sdCtx,
                   elapsed, sdState, sdCalls, shutdownErr, srvErr, idx, running,
                   called, panicVal, raised, outcome,
                   entry, sends, closes, runs, goStarted, lsCalls>>

\* case err := <-serverErr: return err   (then the deferred stop())
SelectServerErr ==
    /\ pc = "Running"
    /\ CanRecv
    /\ branch' = "serverErr"
    /\ result' = RecvValue
    /\ chanBuf' = RecvRest
    /\ recvs' = recvs + 1
    /\ outcome' = "returned"
    /\ sigRegistered' = FALSE
    /\ pc' = "Failed"
    /\ UNCHANGED <<gpc, cfg, listenFunc, shutdownFunc, parentDone, sigRecv,
                   cancelledAt, chanClosed, lsRet, timeout, sdCtx, elapsed,
                   sdState, sdCalls, shutdownErr, srvErr, idx, running, called,
                   panicVal, raised,
                   entry, sends, closes, runs, goStarted, lsCalls>>

\* case <-ctx.Done():
SelectCtxDone ==
    /\ pc = "Running"
    /\ CtxDone
    /\ branch' = "ctxDone"
    /\ pc' = "CancelReceived"
    /\ UNCHANGED <<gpc, cfg, listenFunc, shutdownFunc, parentDone, sigRecv,
                   sigRegistered, cancelledAt, chanBuf, chanClosed, lsRet, timeout,
                   sdCtx, elapsed, sdState, sdCalls, shutdownErr, srvErr, idx,
                   running, called, panicVal, result, raised, outcome,
                   entry, sends, closes, recvs, runs, goStarted, lsCalls>>

\* A coordinator that stores the default in the caller's Config:
\* if cfg.ShutdownTimeout == 0 { cfg.ShutdownTimeout = defaultShutdownTimeout }.
ShutdownCall_WriteBack ==
    /\ pc = "CancelReceived"
    /\ timeout' = EffTimeout(cfg)
    /\ cfg' = IF ~cfg.isNil /\ cfg.ShutdownTimeout = 0
              THEN [cfg EXCEPT !.ShutdownTimeout = defaultShutdownTimeout]
              ELSE cfg
    /\ sdCtx' = IF WithoutCancel(CtxDone) THEN "cancelled" ELSE "active"
    /\ elapsed' = 0
    /\ sdState' = "running"
    /\ sdCalls' = sdCalls + 1
    /\ pc' = "ShuttingDown"
    /\ UNCHANGED <<branch, gpc, listenFunc, shutdownFunc, parentDone, sigRecv,
                   sigRegistered, cancelledAt, chanBuf, chanClosed, lsRet,
                   shutdownErr, srvErr, idx, running, called, panicVal, result,
                   raised, outcome, entry, sends, closes, recvs, runs,
                   goStarted, lsCalls>>

\* timeout, context.WithTimeout(context.WithoutCancel(ctx), timeout), and the
\* call of srv.Shutdown(shutdownCtx).
ShutdownCall ==
    /\ pc = "CancelReceived"
    /\ timeout' = EffTimeout(cfg)
    /\ sdCtx' = IF WithoutCancel(CtxDone) THEN "cancelled" ELSE "active"
    /\ elapsed' = 0
    /\ sdState' = "running"
    /\ sdCalls' = sdCalls + 1
    /\ pc' = "ShuttingDown"
    /\ UNCHANGED <<branch, gpc, cfg, listenFunc, shutdownFunc, parentDone, sigRecv,
                   sigRegistered, cancelledAt, chanBuf, chanClosed, lsRet,
                   shutdownErr, srvErr, idx, running, called, panicVal, result,
                   raised, outcome,
                   entry, sends, closes, recvs, runs, goStarted, lsCalls>>

\* One second passes on the shutdown context's timer.
Tick ==
    /\ sdCtx = "active"
    /\ elapsed < timeout
    /\ elapsed' = elapsed + 1
    /\ sdCtx' = IF elapsed + 1 >= timeout THEN "expired" ELSE sdCtx
    /\ UNCHANGED <<pc, branch, gpc, cfg, listenFunc, shutdownFunc, parentDone,
                   sigRecv, sigRegistered, cancelledAt, chanBuf, chanClosed, lsRet,
                   timeout, sdState, sdCalls, shutdownErr, srvErr, idx, running,
                   called, panicVal, result, raised, outcome,
                   entry, sends, closes, recvs, runs, goStarted, lsCalls>>

\* Values Shutdown may return in the current state.
ShutdownReturns ==
    IF shutdownFunc = "honours"
    THEN IF sdCtx = "expired" THEN {DeadlineExceeded} ELSE {Nil, errShutdown}
    ELSE {Nil, errShutdown}

\* A coordinator that also watches shutdownCtx.Done() and abandons the call.
SdReturn_Watchdog(v) ==
    /\ pc = "ShuttingDown"
    /\ \/ /\ v \in ShutdownReturns
          /\ sdState' = "returned"
       \/ /\ sdCtx = "expired"
          /\ v = DeadlineExceeded
          /\ sdState' = sdState
    /\ shutdownErr' = v
    /\ pc' = IF v = Nil THEN "ShutdownOk" ELSE "ShutdownFailed"
    /\ UNCHANGED <<branch, gpc, cfg, listenFunc, shutdownFunc, parentDone, sigRecv,
                   sigRegistered, cancelledAt, chanBuf, chanClosed, lsRet, timeout,
                   sdCtx, elapsed, sdCalls, srvErr, idx, running, called,
                   panicVal, result, raised, outcome,
                   entry, sends, closes, recvs, runs, goStarted, lsCalls>>

\* A coordinator that returns a Shutdown error at once, skipping drain and cleanups.
SdReturn_EarlyReturn(v) ==
    /\ pc = "ShuttingDown"
    /\ v \in ShutdownReturns
    /\ sdState' = "returned"
    /\ shutdownErr' = v
    /\ IF v = Nil
       THEN /\ pc' = "ShutdownOk"
            /\ UNCHANGED <<result, outcome, sdCtx, sigRegistered>>
       ELSE /\ pc' = "Terminated"
            /\ result' = v
            /\ outcome' = "returned"
            /\ sdCtx' = CancelCtx(sdCtx)
            /\ sigRegistered' = FALSE
    /\ UNCHANGED <<branch, gpc, cfg, listenFunc, shutdownFunc, parentDone, sigRecv,
                   cancelledAt, chanBuf, chanClosed, lsRet, timeout,
                   elapsed, sdCalls, srvErr, idx, running, called,
                   panicVal, raised,
                   entry, sends, closes, recvs, runs, goStarted, lsCalls>>

\* shutdownErr := srv.Shutdown(shutdownCtx) returns v.
SdReturn(v) ==
    /\ pc = "ShuttingDown"
    /\ v \in ShutdownReturns
    /\ sdState' = "returned"
    /\ shutdownErr' = v
    /\ pc' = IF v = Nil THEN "ShutdownOk" ELSE "ShutdownFailed"
    /\ UNCHANGED <<branch, gpc, cfg, listenFunc, shutdownFunc, parentDone, sigRecv,
                   sigRegistered, cancelledAt, chanBuf, chanClosed, lsRet, timeout,
                   sdCtx, elapsed, sdCalls, srvErr, idx, running, called,
                   panicVal, result, raised, outcome,
                   entry, sends, closes, recvs, runs, goStarted, lsCalls>>

\* A coordinator that goes on to the cleanups without receiving from serverErr.
Drain_Skip ==
    /\ pc \in {"ShutdownOk", "ShutdownFailed"}
    /\ idx' = 1
    /\ panicVal' = NoPanic
    /\ pc' = "CleaningUp"
    /\ UNCHANGED <<branch, gpc, cfg, listenFunc, shutdownFunc, parentDone, sigRecv,
                   sigRegistered, cancelledAt, chanBuf, chanClosed, lsRet, timeout,
                   sdCtx, elapsed, sdState, sdCalls, shutdownErr, srvErr, running,
                   called, result, raised, outcome,
                   entry, sends, closes, recvs, runs, goStarted, lsCalls>>

\* srvErr := <-serverErr, then cleanup(cfg.Cleanups) is entered.
Drain ==
    /\ pc \in {"ShutdownOk", "ShutdownFailed"}
    /\ CanRecv
    /\ srvErr' = RecvValue
    /\ chanBuf' = RecvRest
    /\ recvs' = recvs + 1
    /\ idx' = 1
    /\ panicVal' = NoPanic
    /\ pc' = "CleaningUp"
    /\ UNCHANGED <<branch, gpc, cfg, listenFunc, shutdownFunc, parentDone, sigRecv,
                   sigRegistered, cancelledAt, chanClosed, lsRet, timeout, sdCtx,
                   elapsed, sdState, sdCalls, shutdownErr, running, called,
                   result, raised, outcome,
                   entry, sends, closes, runs, goStarted, lsCalls>>

\* The range loop calls fn().
CleanupCall ==
    /\ pc = "CleaningUp"
    /\ ~running
    /\ idx <= Len(Cleanups)
    /\ running' = TRUE
    /\ called' = Append(called, RangeIndex(idx, Len(Cleanups)))
    /\ UNCHANGED <<pc, branch, gpc, cfg, listenFunc, shutdownFunc, parentDone,
                   sigRecv, sigRegistered, cancelledAt, chanBuf, chanClosed, lsRet,
                   timeout, sdCtx, elapsed, sdState, sdCalls, shutdownErr, srvErr,
                   idx, panicVal, result, raised, outcome,
                   entry, sends, closes, recvs, runs, goStarted, lsCalls>>

\* fn() returns normally; the deferred recover() yields nil.
CleanupReturn ==
    /\ pc = "CleaningUp"
    /\ running
    /\ ~Cleanups[RangeIndex(idx, Len(Cleanups))]
    /\ running' = FALSE
    /\ panicVal' = RecordPanic(panicVal, NoPanic)
    /\ idx' = idx + 1
    /\ UNCHANGED <<pc, branch, gpc, cfg, listenFunc, shutdownFunc, parentDone,
                   sigRecv, sigRegistered, cancelledAt, chanBuf, chanClosed, lsRet,
                   timeout, sdCtx, elapsed, sdState, sdCalls, shutdownErr, srvErr,
                   called, result, raised, outcome,
                   entry, sends, closes, recvs, runs, goStarted, lsCalls>>

\* A cleanup loop without recover: the panic unwinds Run at once.
CleanupPanic_NoRecover ==
    /\ pc = "CleaningUp"
    /\ running
    /\ Cleanups[RangeIndex(idx, Len(Cleanups))]
    /\ running' = FALSE
    /\ raised' = RangeIndex(idx, Len(Cleanups))
    /\ outcome' = "panicked"
    /\ sdCtx' = CancelCtx(sdCtx)
    /\ sigRegistered' = FALSE
    /\ pc' = "Terminated"
    /\ UNCHANGED <<branch, gpc, cfg, listenFunc, shutdownFunc, parentDone,
                   sigRecv, cancelledAt, chanBuf, chanClosed, lsRet,
                   timeout, elapsed, sdState, sdCalls, shutdownErr, srvErr,
                   idx, panicVal, called, result,
                   entry, sends, closes, recvs, runs, goStarted, lsCalls>>

\* fn() panics; the deferred func recovers the value and records the first one.
CleanupPanic ==
    /\ pc = "CleaningUp"
    /\ running
    /\ Cleanups[RangeIndex(idx, Len(Cleanups))]
    /\ running' = FALSE
    /\ panicVal' = RecordPanic(panicVal, RangeIndex(idx, Len(Cleanups)))
    /\ idx' = idx + 1
    /\ UNCHANGED <<pc, branch, gpc, cfg, listenFunc, shutdownFunc, parentDone,
                   sigRecv, sigRegistered, cancelledAt, chanBuf, chanClosed, lsRet,
                   timeout, sdCtx, elapsed, sdState, sdCalls, shutdownErr, srvErr,
                   called, result, raised, outcome,
                   entry, sends, closes, recvs, runs, goStarted, lsCalls>>

\* A cleanup that drops the recorded panic: Run goes on to return its error.
Repanic_Swallow ==
    /\ pc = "CleaningUp"
    /\ ~running
    /\ idx > Len(Cleanups)
    /\ panicVal # NoPanic
    /\ result' = FinalResult(srvErr, shutdownErr)
    /\ outcome' = "returned"
    /\ sdCtx' = CancelCtx(sdCtx)
    /\ sigRegistered' = FALSE
    /\ pc' = "Terminated"
    /\ UNCHANGED <<branch, gpc, cfg, listenFunc, shutdownFunc, parentDone,
                   sigRecv, cancelledAt, chanBuf, chanClosed, lsRet, timeout,
                   elapsed, sdState, sdCalls, shutdownErr, srvErr, idx,
                   running, called, panicVal, raised, entry, sends, closes,
                   recvs, runs, goStarted, lsCalls>>

\* A Run that calls cancel() and stop() before its return statements instead
\* of deferring them: the panic unwinds Run past both calls.
Repanic_NoRelease ==
    /\ pc = "CleaningUp"
    /\ ~running
    /\ idx > Len(Cleanups)
    /\ panicVal # NoPanic
    /\ raised' = panicVal
    /\ outcome' = "panicked"
    /\ pc' = "Terminated"
    /\ UNCHANGED <<branch, gpc, cfg, listenFunc, shutdownFunc, parentDone,
                   sigRecv, sigRegistered, cancelledAt, chanBuf, chanClosed,
                   lsRet, timeout, sdCtx, elapsed, sdState, sdCalls,
                   shutdownErr, srvErr, idx, running, called, panicVal, result,
                   entry, sends, closes, recvs, runs, goStarted, lsCalls>>

\* The loop is over and a panic was recorded: panic(panicVal) unwinds Run,
\* running the deferred cancel() and stop().
Repanic ==
    /\ pc = "CleaningUp"
    /\ ~running
    /\ idx > Len(Cleanups)
    /\ panicVal # NoPanic
    /\ raised' = panicVal
    /\ outcome' = "panicked"
    /\ sdCtx' = CancelCtx(sdCtx)
    /\ sigRegistered' = FALSE
    /\ pc' = "Terminated"
    /\ UNCHANGED <<branch, gpc, cfg, listenFunc, shutdownFunc, parentDone, sigRecv,
                   cancelledAt, chanBuf, chanClosed, lsRet, timeout, elapsed,
                   sdState, sdCalls, shutdownErr, srvErr, idx, running, called,
                   panicVal, result,
                   entry, sends, closes, recvs, runs, goStarted, lsCalls>>

\* A coordinator whose select sits in a for loop: after the cleanups it waits
\* again instead of returning.
RunReturn_Loop ==
    /\ pc = "CleaningUp"
    /\ ~running
    /\ idx > Len(Cleanups)
    /\ panicVal = NoPanic
    /\ pc' = "Running"
    /\ UNCHANGED <<branch, gpc, cfg, listenFunc, shutdownFunc, parentDone,
                   sigRecv, sigRegistered, cancelledAt, chanBuf, chanClosed,
                   lsRet, timeout, sdCtx, elapsed, sdState, sdCalls,
                   shutdownErr, srvErr, idx, running, called, panicVal, result,
                   raised, outcome, entry, sends, closes, recvs, runs,
                   goStarted, lsCalls>>

\* The loop is over without a recorded panic: Run returns srvErr or shutdownErr,
\* running the deferred cancel() and stop().
RunReturn ==
    /\ pc = "CleaningUp"
    /\ ~running
    /\ idx > Len(Cleanups)
    /\ panicVal = NoPanic
    /\ result' = FinalResult(srvErr, shutdownErr)
    /\ outcome' = "returned"
    /\ sdCtx' = CancelCtx(sdCtx)
    /\ sigRegistered' = FALSE
    /\ pc' = "Terminated"
    /\ UNCHANGED <<branch, gpc, cfg, listenFunc, shutdownFunc, parentDone, sigRecv,
                   cancelledAt, chanBuf, chanClosed, lsRet, timeout, elapsed,
                   sdState, sdCalls, shutdownErr, srvErr, idx, running, called,
                   panicVal, raised,
                   entry, sends, closes, recvs, runs, goStarted, lsCalls>>

\* ------------------------------------------------------------------- Next
Next ==
    \/ CancelParent
    \/ Signal
    \/ GoListen
    \/ \E v \in {Nil, errListen, ErrServerClosed} : LSReturn(v)
    \/ GoSend
    \/ GoClose
    \/ RunStart
    \/ SelectServerErr
    \/ SelectCtxDone
    \/ ShutdownCall
    \/ Tick
    \/ \E v \in {Nil, errShutdown, DeadlineExceeded} : SdReturn(v)
    \/ Drain
    \/ CleanupCall
    \/ CleanupReturn
    \/ CleanupPanic
    \/ Repanic
    \/ RunReturn

Spec == Init /\ [][Next]_vars

\* ----------------------------------------------------- fair scheduling

\* The steps of the coordinator, Run itself, with the cleanup functions it
\* calls: each cleanup returns or panics.
CoordinatorStep ==
    \/ RunStart
    \/ SelectServerErr
    \/ SelectCtxDone
    \/ ShutdownCall
    \/ Drain
    \/ CleanupCall
    \/ CleanupReturn
    \/ CleanupPanic
    \/ Repanic
    \/ RunReturn

\* The steps of the service goroutine that are its own: calling ListenAndServe,
\* the send and the close.
GoroutineStep ==
    \/ GoListen
    \/ GoSend
    \/ GoClose

\* srv.Shutdown returns.
ShutdownReturnStep == \E v \in {Nil, errShutdown, DeadlineExceeded} : SdReturn(v)

\* srv.ListenAndServe returns when its Server lets it.
ListenReturnStep == \E v \in {Nil, errListen, ErrServerClosed} : LSReturn(v)

\* The Go scheduler runs every runnable goroutine, and Shutdown returns.
SchedulerFairness ==
    /\ WF_vars(CoordinatorStep)
    /\ WF_vars(GoroutineStep)
    /\ WF_vars(ShutdownReturnStep)

\* The cfg arguments followed under fair scheduling: nil (default bound, no
\* cleanups) or a Config with a 2-second bound and any cleanup list.
FairConfig == {c \in Config : c.isNil \/ c.ShutdownTimeout = 2}

InitFair == Init /\ cfg \in FairConfig

\* A compliant service and a caller that cancels: ListenAndServe returns when
\* it can, and the parent context is cancelled if no signal arrives first.
SpecFair ==
    /\ InitFair
    /\ [][Next]_vars
    /\ SchedulerFairness
    /\ WF_vars(ListenReturnStep)
    /\ WF_vars(CancelParent)

\* Any service: nothing is assumed about when ListenAndServe returns or when
\* the context is cancelled.
SpecFairAnyService ==
    /\ InitFair
    /\ [][Next]_vars
    /\ SchedulerFairness

\* ------------------------------------------------- sequential invocations

\* The Config of BenchmarkShutdown (ShutdownTimeout left zero), or nil.
SeqConfig == {c \in Config : c.ShutdownTimeout = 0}

InitSeq == Init /\ cfg \in SeqConfig

\* The caller, after Run has returned, calls Run again with the same cfg, a new
\* server and a new context. The goroutine of the earlier invocation can only
\* still close that invocation's channel and is no longer followed.
Reinvoke ==
    /\ pc \in {"Failed", "Terminated"}
    /\ outcome = "returned"
    /\ runs < MaxRuns
    /\ runs' = runs + 1
    /\ listenFunc' \in ListenFuncs
    /\ shutdownFunc' \in ShutdownFuncs
    /\ parentDone' \in BOOLEAN
    /\ cancelledAt' = IF parentDone' THEN [pc |-> "Starting", gpc |-> "notstarted"]
                      ELSE NotCancelled
    /\ pc' = "Starting"
    /\ branch' = "none"
    /\ gpc' = "notstarted"
    /\ sigRecv' = FALSE
    /\ sigRegistered' = FALSE
    /\ lsRet' = Nil
    /\ timeout' = 0
    /\ sdCtx' = "none"
    /\ elapsed' = 0
    /\ sdState' = "idle"
    /\ sdCalls' = 0
    /\ shutdownErr' = Nil
    /\ srvErr' = Nil
    /\ idx' = 1
    /\ running' = FALSE
    /\ called' = <<>>
    /\ panicVal' = NoPanic
    /\ result' = Nil
    /\ raised' = NoPanic
    /\ outcome' = "none"
    /\ UNCHANGED <<cfg, entry, chanBuf, chanClosed, sends, closes, recvs,
                   goStarted, lsCalls>>

NextSeq ==
    \/ Next
    \/ Reinvoke

SpecSeq == InitSeq /\ [][NextSeq]_vars

\* ------------------------------------------------------------------ httpx
\* httpx.Run and httpx.RunWithContext (httpx/httpx.go). Their service goroutine
\* is the one of graceful.Run, statement for statement, and is modelled by
\* GoListen, LSReturn, GoSend and GoClose.

\* No option, or WithShutdownTimeout(d).
HxConfig == {c \in Config : c.Cleanups = <<>>}

\* defaultConfig() and WithShutdownTimeout(d): d is taken as given.
HxTimeout(c) == IF c.isNil THEN defaultShutdownTimeout ELSE c.ShutdownTimeout

\* The stop event each entry point selects on: the quit channel of
\* signal.Notify, or ctx.Done().
HxStopReady == IF entry = "httpx.Run" THEN sigRecv ELSE parentDone

InitHttpx ==
    /\ entry \in {"httpx.Run", "httpx.RunWithContext"}
    /\ cfg \in HxConfig
    /\ listenFunc \in ListenFuncs
    /\ shutdownFunc \in ShutdownFuncs
    /\ parentDone \in (IF entry = "httpx.Run" THEN {FALSE} ELSE BOOLEAN)
    /\ cancelledAt = IF parentDone THEN [pc |-> "Starting", gpc |-> "notstarted"]
                     ELSE NotCancelled
    /\ pc = "Starting"
    /\ branch = "none"
    /\ gpc = "notstarted"
    /\ sigRecv = FALSE
    /\ sigRegistered = FALSE
    /\ chanBuf = <<>>
    /\ chanClosed = FALSE
    /\ lsRet = Nil
    /\ timeout = 0
    /\ sdCtx = "none"
    /\ elapsed = 0
    /\ sdState = "idle"
    /\ sdCalls = 0
    /\ shutdownErr = Nil
    /\ srvErr = Nil
    /\ idx = 1
    /\ running = FALSE
    /\ called = <<>>
    /\ panicVal = NoPanic
    /\ result = Nil
    /\ raised = NoPanic
    /\ outcome = "none"
    /\ sends = 0
    /\ closes = 0
    /\ recvs = 0
    /\ runs = 1
    /\ goStarted = 0
    /\ lsCalls = 0

\* Up to the select: options applied, make(chan error, 1), go func, and in
\* Run signal.Notify(quit, cfg.signals...).
HxStart ==
    /\ pc = "Starting"
    /\ pc' = "Running"
    /\ sigRegistered' = (entry = "httpx.Run")
    /\ chanBuf' = <<>>
    /\ chanClosed' = FALSE
    /\ sends' = 0
    /\ closes' = 0
    /\ recvs' = 0
    /\ gpc' = "spawned"
    /\ goStarted' = goStarted + 1
    /\ UNCHANGED <<branch, cfg, listenFunc, shutdownFunc, parentDone, sigRecv,
                   cancelledAt, lsRet, timeout, sdCtx, elapsed, sdState,
                   sdCalls, shutdownErr, srvErr, idx, running, called,
                   panicVal, result, raised, outcome, entry, runs, lsCalls>>

\* case err := <-serverErr: return err   (then the deferred signal.Stop)
HxSelectServerErr ==
    /\ pc = "Running"
    /\ CanRecv
    /\ branch' = "serverErr"
    /\ result' = RecvValue
    /\ chanBuf' = RecvRest
    /\ recvs' = recvs + 1
    /\ outcome' = "returned"
    /\ sigRegistered' = FALSE
    /\ pc' = "Failed"
    /\ UNCHANGED <<gpc, cfg, listenFunc, shutdownFunc, parentDone, sigRecv,
                   cancelledAt, chanClosed, lsRet, timeout, sdCtx, elapsed,
                   sdState, sdCalls, shutdownErr, srvErr, idx, running, called,
                   panicVal, raised, entry, sends, closes, runs, goStarted,
                   lsCalls>>

\* case <-quit:  /  case <-ctx.Done():
HxSelectStop ==
    /\ pc = "Running"
    /\ HxStopReady
    /\ branch' = "ctxDone"
    /\ pc' = "CancelReceived"
    /\ UNCHANGED <<gpc, cfg, listenFunc, shutdownFunc, parentDone, sigRecv,
                   sigRegistered, cancelledAt, chanBuf, chanClosed, lsRet,
                   timeout, sdCtx, elapsed, sdState, sdCalls, shutdownErr,
                   srvErr, idx, running, called, panicVal, result, raised,
                   outcome, entry, sends, closes, recvs, runs, goStarted,
                   lsCalls>>

\* context.WithTimeout(context.Background(), cfg.shutdownTimeout) and the call
\* of srv.Shutdown; a non-positive timeout gives a context that is already done.
HxShutdownCall ==
    /\ pc = "CancelReceived"
    /\ timeout' = HxTimeout(cfg)
    /\ sdCtx' = IF HxTimeout(cfg) <= 0 THEN "expired" ELSE "active"
    /\ elapsed' = 0
    /\ sdState' = "running"
    /\ sdCalls' = sdCalls + 1
    /\ pc' = "ShuttingDown"
    /\ UNCHANGED <<branch, gpc, cfg, listenFunc, shutdownFunc, parentDone,
                   sigRecv, sigRegistered, cancelledAt, chanBuf, chanClosed,
                   lsRet, shutdownErr, srvErr, idx, running, called, panicVal,
                   result, raised, outcome, entry, sends, closes, recvs, runs,
                   goStarted, lsCalls>>

\* return srv.Shutdown(ctx): Shutdown returns v and v is the result, without a
\* further receive from serverErr; then the deferred cancel() and signal.Stop.
HxSdReturn(v) ==
    /\ pc = "ShuttingDown"
    /\ v \in ShutdownReturns
    /\ sdState' = "returned"
    /\ shutdownErr' = v
    /\ result' = v
    /\ outcome' = "returned"
    /\ sdCtx' = CancelCtx(sdCtx)
    /\ sigRegistered' = FALSE
    /\ pc' = "Terminated"
    /\ UNCHANGED <<branch, gpc, cfg, listenFunc, shutdownFunc, parentDone,
                   sigRecv, cancelledAt, chanBuf, chanClosed, lsRet, timeout,
                   elapsed, sdCalls, srvErr, idx, running, called, panicVal,
                   raised, entry, sends, closes, recvs, runs, goStarted,
                   lsCalls>>

NextHttpx ==
    \/ CancelParent
    \/ Signal
    \/ GoListen
    \/ \E v \in {Nil, errListen, ErrServerClosed} : LSReturn(v)
    \/ GoSend
    \/ GoClose
    \/ HxStart
    \/ HxSelectServerErr
    \/ HxSelectStop
    \/ HxShutdownCall
    \/ Tick
    \/ \E v \in {Nil, errShutdown, DeadlineExceeded} : HxSdReturn(v)

SpecHttpx == InitHttpx /\ [][NextHttpx]_vars

\* ------------------------------------------------------------- type invariant
TypeOK ==
    /\ pc \in {"Starting", "Running", "Failed", "CancelReceived", "ShuttingDown",
               "ShutdownOk", "ShutdownFailed", "CleaningUp", "Terminated"}
    /\ branch \in {"none", "serverErr", "ctxDone"}
    /\ gpc \in {"notstarted", "spawned", "listening", "returned", "closing", "exited"}
    /\ Len(chanBuf) <= 1
    /\ sdCtx \in {"none", "active", "expired", "cancelled"}
    /\ sdState \in {"idle", "running", "returned"}
    /\ outcome \in {"none", "returned", "panicked"}
    /\ elapsed = 0 \/ elapsed \in 0..timeout

\* ------------------------------------------------------------ properties

\* Positions of the service goroutine after ListenAndServe has returned.
LSReturned == gpc \in {"returned", "closing", "exited"}

\* The cleanup list in list order, as the log a complete pass produces.
FullLog == [k \in 1..Len(Cleanups) |-> k]

\* The earliest cleanup of the list that panics.
FirstPanicking ==
    CHOOSE i \in 1..Len(Cleanups) :
        Cleanups[i] /\ \A j \in 1..(i - 1) : ~Cleanups[j]

\* C1: when ListenAndServe returned a non-nil error other than ErrServerClosed,
\* whatever Run returns (on either select branch, with cancellation racing the
\* failure) is that service error, never nil.
C1_OutcomeNotLost ==
    (outcome = "returned" /\ LSReturned /\ lsRet \notin {Nil, ErrServerClosed})
        => (result = lsRet /\ result # Nil)

C1_Witness ==
    /\ pc = "Terminated"
    /\ outcome = "returned"
    /\ branch = "ctxDone"
    /\ lsRet = errListen
    /\ cancelledAt.gpc = "returned"
    /\ shutdownErr # Nil
    /\ result = errListen

\* C2: on the cancellation path Run returns the drained service error when it
\* is non-nil, also when Shutdown failed; it returns the shutdown error only
\* when the drained service error is nil.
C2_ServiceErrorPriority ==
    (pc = "Terminated" /\ outcome = "returned")
        => /\ (srvErr # Nil => result = srvErr)
           /\ (srvErr = Nil => result = shutdownErr)

C2_Witness ==
    /\ pc = "Terminated"
    /\ outcome = "returned"
    /\ srvErr = errListen
    /\ shutdownErr = errShutdown
    /\ result = errListen

\* C3 as stated: a failure returned by ListenAndServe before any cancellation
\* was requested means no cleanup is ever executed, whatever is scheduled later.
C3_Original ==
    (/\ LSReturned
     /\ lsRet = errListen
     /\ cancelledAt.gpc \in {"none", "returned", "closing", "exited"})
        => called = <<>>

\* C3 amended: after a failure of ListenAndServe, no cleanup runs and Shutdown
\* is not called as long as no cancellation has been requested, and none ever
\* runs when the first cancellation arrives only after Run has returned the
\* failure; a cancellation that arrives before the select received the failure
\* may still lead to the cancellation path.
C3_NoCleanupUnlessCancelled ==
    (LSReturned /\ lsRet # ErrServerClosed)
        => /\ (~CtxDone => (called = <<>> /\ sdCalls = 0))
           /\ (cancelledAt.pc \in {"none", "Failed"} => (called = <<>> /\ sdCalls = 0))

C3_Witness ==
    /\ pc = "Failed"
    /\ lsRet = errListen
    /\ result = errListen
    /\ cancelledAt.pc = "Failed"
    /\ Len(Cleanups) > 0
    /\ called = <<>>

\* C4: when the select takes the serverErr case, Run returns the received value
\* at once; Shutdown is never invoked and no cleanup is executed.
C4_FailureBranch ==
    branch = "serverErr"
        => /\ pc = "Failed"
           /\ outcome = "returned"
           /\ result = (IF lsRet = ErrServerClosed THEN Nil ELSE lsRet)
           /\ sdCalls = 0
           /\ sdState = "idle"
           /\ sdCtx = "none"
           /\ called = <<>>

C4_Witness ==
    /\ branch = "serverErr"
    /\ CtxDone
    /\ result = errListen
    /\ Len(Cleanups) > 0
    /\ pc = "Failed"

\* C5: a Run that took the cancellation path has, when it terminates, executed
\* every cleanup action exactly once, after Shutdown and ListenAndServe
\* returned, whatever Shutdown returned and whatever was drained.
C5_CleanupsAlwaysRun ==
    pc = "Terminated"
        => /\ sdState = "returned"
           /\ LSReturned
           /\ Len(called) = Len(Cleanups)
           /\ \A i \in 1..Len(Cleanups) :
                  Cardinality({k \in 1..Len(called) : called[k] = i}) = 1

C5_Witness ==
    /\ pc = "Terminated"
    /\ shutdownErr # Nil
    /\ srvErr # Nil
    /\ Len(Cleanups) >= 2
    /\ Len(called) = Len(Cleanups)

\* C6: the cleanups are called in list order, one at a time: the log is always
\* the list's prefix up to the action in progress, and a terminated run has
\* logged the whole list in order.
C6_CleanupOrder ==
    /\ \A k \in 1..Len(called) : called[k] = k
    /\ Len(called) = (idx - 1) + (IF running THEN 1 ELSE 0)
    /\ (pc = "Terminated" => called = FullLog)

C6_Witness ==
    /\ pc = "Terminated"
    /\ outcome = "returned"
    /\ called = <<1, 2, 3>>

\* C7: when a cleanup panics, the later cleanups still run, and only after the
\* last one does Run terminate, by panicking with the recorded value and
\* without returning an error value.
C7_FaultContainment ==
    /\ (pc = "Terminated" /\ \E i \in 1..Len(Cleanups) : Cleanups[i])
           => (outcome = "panicked" /\ raised # NoPanic /\ called = FullLog)
    /\ outcome = "panicked"
           => /\ pc = "Terminated"
              /\ called = FullLog
              /\ raised = panicVal
              /\ result = Nil

C7_Witness ==
    /\ pc = "Terminated"
    /\ Cleanups = <<TRUE, FALSE>>
    /\ called = <<1, 2>>
    /\ outcome = "panicked"
    /\ raised = 1

\* C8: the recorded panic is always that of the earliest panicking cleanup run
\* so far (so it is never overwritten), and it is the value Run re-raises.
C8_FirstFaultOnly ==
    /\ (pc \in {"CleaningUp", "Terminated"} /\ panicVal # NoPanic)
           => panicVal = FirstPanicking
    /\ outcome = "panicked" => raised = FirstPanicking

C8_Witness ==
    /\ outcome = "panicked"
    /\ Cardinality({i \in 1..Len(Cleanups) : Cleanups[i]}) >= 2
    /\ raised = FirstPanicking
    /\ called = FullLog

\* C9: for a server whose ListenAndServe blocks until Shutdown is called and
\* then returns ErrServerClosed, Run never takes the failure branch, and when
\* Shutdown returned nil Run returns nil, after cancellation, wherever the
\* cancellation arrived.
C9_CleanPath ==
    listenFunc = "blockUntilShutdown"
        => /\ pc # "Failed"
           /\ (pc = "Terminated" /\ outcome = "returned" /\ shutdownErr = Nil)
                  => (result = Nil /\ CtxDone)

C9_Witness ==
    /\ listenFunc = "blockUntilShutdown"
    /\ pc = "Terminated"
    /\ outcome = "returned"
    /\ shutdownErr = Nil
    /\ result = Nil
    /\ cancelledAt = [pc |-> "Starting", gpc |-> "notstarted"]

\* C10 as stated: once the deadline has expired while a Shutdown that ignores
\* its context is still blocked, Run goes on with a shutdown failure.
C10_Original ==
    [][(/\ pc = "ShuttingDown"
        /\ shutdownFunc = "ignores"
        /\ sdCtx = "expired"
        /\ sdState = "running"
        /\ pc' # "ShuttingDown")
           => shutdownErr' # Nil]_vars

\* C10 amended: Run stays in the Shutdown call until Shutdown itself returns,
\* also after the deadline expired, and then returns a failure exactly when
\* Shutdown returned an error or a service error was drained.
C10_WaitsForShutdown ==
    /\ pc \in {"ShutdownOk", "ShutdownFailed", "CleaningUp", "Terminated"}
           => sdState = "returned"
    /\ sdState = "running" => pc = "ShuttingDown"
    /\ (pc = "Terminated" /\ outcome = "returned")
           => (result # Nil <=> (shutdownErr # Nil \/ srvErr # Nil))

C10_Witness ==
    /\ shutdownFunc = "ignores"
    /\ pc = "ShuttingDown"
    /\ sdCtx = "expired"
    /\ sdState = "running"
    /\ elapsed = timeout

\* C11: on the cancellation path, when Shutdown returned a non-nil error and
\* ListenAndServe returned ErrServerClosed, Run returns that shutdown error,
\* and Shutdown has been called once only.
C11_ShutdownFailureSurfaced ==
    (/\ pc = "Terminated"
     /\ outcome = "returned"
     /\ shutdownErr # Nil
     /\ lsRet = ErrServerClosed)
        => (result = shutdownErr /\ result # Nil /\ sdCalls = 1)

C11_Witness ==
    /\ pc = "Terminated"
    /\ outcome = "returned"
    /\ lsRet = ErrServerClosed
    /\ shutdownErr = DeadlineExceeded
    /\ result = DeadlineExceeded
    /\ sdCalls = 1

\* C12 as stated: every return value of ListenAndServe other than
\* ErrServerClosed, nil included, is sent once on serverErr and makes the
\* result of Run a failure.
C12_Original ==
    (LSReturned /\ lsRet # ErrServerClosed)
        => /\ sends <= 1
           /\ (gpc \in {"closing", "exited"} => sends = 1)
           /\ (outcome = "returned" => result # Nil)

\* C12 amended: every return value other than ErrServerClosed, nil included, is
\* sent exactly once on serverErr and ErrServerClosed is never sent; a non-nil
\* value becomes the result of Run, while a nil return makes Run return nil on
\* the serverErr branch and the shutdown error on the cancellation path.
C12_Classification ==
    /\ (LSReturned /\ lsRet # ErrServerClosed)
           => /\ sends <= 1
              /\ (gpc \in {"closing", "exited"} => sends = 1)
              /\ (outcome = "returned" /\ lsRet # Nil) => result = lsRet
              /\ (outcome = "returned" /\ lsRet = Nil)
                     => result = (IF branch = "serverErr" THEN Nil ELSE shutdownErr)
    /\ (LSReturned /\ lsRet = ErrServerClosed) => sends = 0

C12_Witness ==
    /\ listenFunc = "returnNil"
    /\ LSReturned
    /\ lsRet = Nil
    /\ sends = 1
    /\ pc = "Failed"
    /\ outcome = "returned"
    /\ result = Nil

\* C13: the bound of the shutdown context is Config.ShutdownTimeout when that
\* is positive and 5 seconds when cfg is nil or the field is zero or negative;
\* the context expires exactly when that bound has elapsed; a nil cfg has no
\* cleanups, as Config{ShutdownTimeout: 5s} has.
C13_DefaultTimeout ==
    /\ sdCtx # "none"
           => timeout = (IF ~cfg.isNil /\ cfg.ShutdownTimeout > 0
                         THEN cfg.ShutdownTimeout ELSE 5)
    /\ sdCtx = "expired" => elapsed = timeout
    /\ sdCtx = "active" => elapsed < timeout
    /\ cfg.isNil => (called = <<>> /\ (sdCtx # "none" => timeout = 5))

C13_Witness ==
    /\ cfg.isNil
    /\ pc = "Terminated"
    /\ timeout = defaultShutdownTimeout
    /\ elapsed = 5
    /\ shutdownErr = DeadlineExceeded
    /\ result = DeadlineExceeded

\* C14: the shutdown context is not done when Shutdown is invoked although the
\* context Run waited on is cancelled; it becomes done only when its timeout
\* has elapsed or when Run terminates, whatever stop requests arrive.
C14_ShutdownScopeIndependent ==
    /\ pc \in {"ShuttingDown", "ShutdownOk", "ShutdownFailed", "CleaningUp"}
           => (sdCtx \in {"active", "expired"} /\ CtxDone)
    /\ (pc = "ShuttingDown" /\ elapsed < timeout) => sdCtx = "active"
    /\ sdCtx = "expired" => elapsed >= timeout
    /\ sdCtx = "cancelled" => pc = "Terminated"

C14_Witness ==
    /\ pc = "ShuttingDown"
    /\ sdState = "running"
    /\ sdCtx = "active"
    /\ parentDone
    /\ sigRecv
    /\ elapsed > 0

\* C15: serverErr is sent on at most once, never holds more than one value,
\* and is closed once, by the service goroutine as its last step after the
\* optional send; a drain of the closed, empty channel yields nil.
C15_SingleWriteHolder ==
    /\ sends <= 1
    /\ Len(chanBuf) <= 1
    /\ closes <= 1
    /\ chanClosed <=> closes = 1
    /\ closes = 1 => gpc = "exited"
    /\ sends = 1 => gpc \in {"closing", "exited"}
    /\ gpc = "exited"
           => (closes = 1 /\ sends = (IF lsRet = ErrServerClosed THEN 0 ELSE 1))
    /\ (pc \in {"CleaningUp", "Terminated"} /\ lsRet = ErrServerClosed)
           => (srvErr = Nil /\ chanClosed)

C15_Witness ==
    /\ pc = "Terminated"
    /\ gpc = "exited"
    /\ lsRet = ErrServerClosed
    /\ sends = 0
    /\ closes = 1
    /\ recvs = 1
    /\ srvErr = Nil

\* C16: when Run has returned, on either path, serverErr holds no unread value
\* and the goroutine is past its send; the coordinator has received from the
\* channel exactly once, and on the cancellation path that receive comes
\* after Shutdown returned, whatever it returned.
C16_OutcomeNeverUnread ==
    /\ outcome = "returned"
           => (chanBuf = <<>> /\ gpc \in {"closing", "exited"} /\ recvs = 1)
    /\ pc \in {"CancelReceived", "ShuttingDown", "ShutdownOk", "ShutdownFailed"}
           => recvs = 0
    /\ pc \in {"CleaningUp", "Terminated"}
           => (recvs = 1 /\ sdState = "returned")

C16_Witness ==
    /\ pc = "Terminated"
    /\ outcome = "returned"
    /\ shutdownErr # Nil
    /\ sends = 1
    /\ recvs = 1
    /\ chanBuf = <<>>

\* C17: every invocation of Run starts one service goroutine, which calls
\* ListenAndServe once, so N invocations have started N goroutines; an
\* invocation starts with an empty, open channel of its own, and whatever it
\* receives from that channel was produced by its own goroutine.
C17_NoDoubleInvocation ==
    /\ goStarted = (IF pc = "Starting" THEN runs - 1 ELSE runs)
    /\ lsCalls = (IF gpc \in {"notstarted", "spawned"} THEN runs - 1 ELSE runs)
    /\ pc = "Running" /\ gpc \in {"spawned", "listening", "returned"}
           => (chanBuf = <<>> /\ ~chanClosed)
    /\ recvs >= 1 /\ pc # "Starting"
           => (recvs = 1 /\ gpc \in {"closing", "exited"})
    /\ (outcome = "returned" /\ lsRet = errListen) => result = errListen
    /\ (outcome = "returned" /\ branch = "ctxDone" /\ lsRet = ErrServerClosed)
           => result = shutdownErr

C17_Witness ==
    /\ runs = 2
    /\ pc = "Terminated"
    /\ outcome = "returned"
    /\ goStarted = 2
    /\ lsCalls = 2
    /\ listenFunc = "blockUntilShutdown"
    /\ result = Nil

\* The edges of the lifecycle state machine.
LifecycleEdges ==
    {<<"Starting", "Running">>, <<"Running", "Failed">>,
     <<"Running", "CancelReceived">>, <<"CancelReceived", "ShuttingDown">>,
     <<"ShuttingDown", "ShutdownOk">>, <<"ShuttingDown", "ShutdownFailed">>,
     <<"ShutdownOk", "CleaningUp">>, <<"ShutdownFailed", "CleaningUp">>,
     <<"CleaningUp", "Terminated">>}

\* C18: the phase of an invocation changes only along the edges of the
\* lifecycle state machine; these form no cycle and none leaves Failed or
\* Terminated, so no phase is entered twice.
C18_Lifecycle == [][pc' # pc => <<pc, pc'>> \in LifecycleEdges]_vars

C18_Witness ==
    /\ pc = "Terminated"
    /\ branch = "ctxDone"
    /\ shutdownErr # Nil
    /\ sdCalls = 1
    /\ called = FullLog
    /\ Len(Cleanups) > 0

\* C19 as stated: a stop event that arrives while Run has not yet left its
\* select leads to exactly one Shutdown call by the time Run has ended.
C19_Original ==
    (pc \in {"Failed", "Terminated"} /\ cancelledAt.pc \in {"Starting", "Running"})
        => sdCalls = 1

\* C19 amended: either stop source makes the context done; Shutdown is called
\* at most once, exactly once when the select takes the ctx.Done case and not
\* at all when it takes the serverErr case, and later stop events start no
\* second shutdown and no second cleanup pass.
C19_StopOnce ==
    /\ sdCalls <= 1
    /\ sdCalls = 1
           <=> pc \in {"ShuttingDown", "ShutdownOk", "ShutdownFailed",
                       "CleaningUp", "Terminated"}
    /\ pc \in {"CancelReceived", "ShuttingDown", "ShutdownOk", "ShutdownFailed",
               "CleaningUp", "Terminated"}
           => (CtxDone /\ branch = "ctxDone")
    /\ pc = "Failed" => (sdCalls = 0 /\ branch = "serverErr")
    /\ \A i \in 1..Len(Cleanups) :
           Cardinality({k \in 1..Len(called) : called[k] = i}) <= 1

C19_Witness ==
    /\ pc = "Terminated"
    /\ cancelledAt.pc = "Running"
    /\ sigRecv
    /\ parentDone
    /\ sdCalls = 1
    /\ Len(Cleanups) > 0
    /\ called = FullLog

\* C20: httpx.Run and httpx.RunWithContext return an error when ListenAndServe
\* had failed before the stop event arrived, and when Shutdown returned an
\* error; they return nil for a well-behaved server only after a Shutdown
\* that returned nil.
C20_HttpxResult ==
    /\ (/\ outcome = "returned"
        /\ lsRet = errListen
        /\ cancelledAt.gpc \in {"returned", "closing", "exited"})
           => result # Nil
    /\ (outcome = "returned" /\ shutdownErr # Nil) => result # Nil
    /\ (outcome = "returned" /\ result = Nil /\ listenFunc = "blockUntilShutdown")
           => (sdCalls = 1 /\ shutdownErr = Nil)

\* C21: no step of Run changes the caller's Config; the Shutdown call computes
\* the bound, the 5-second default included, into the local timeout only.
C21_ConfigImmutable ==
    [][/\ cfg' = cfg
       /\ sdCalls' # sdCalls
              => timeout' = (IF ~cfg.isNil /\ cfg.ShutdownTimeout > 0
                             THEN cfg.ShutdownTimeout
                             ELSE defaultShutdownTimeout)]_vars

C21_Witness ==
    /\ outcome # "none"
    /\ pc = "Terminated"
    /\ ~cfg.isNil
    /\ cfg.ShutdownTimeout = 0
    /\ timeout = defaultShutdownTimeout
    /\ Len(cfg.Cleanups) > 0
    /\ called = FullLog

\* C22: a cleanup has been called only after Shutdown has returned and
\* ListenAndServe has returned; no cleanup runs while the service goroutine
\* is inside ListenAndServe or has not started it.
C22_CleanupsAfterShutdown ==
    (called # <<>> \/ running \/ pc = "CleaningUp")
        => /\ sdState = "returned"
           /\ LSReturned
           /\ gpc \notin {"spawned", "listening"}

C22_Witness ==
    /\ pc = "CleaningUp"
    /\ running
    /\ listenFunc = "blockUntilShutdown"
    /\ lsRet = ErrServerClosed
    /\ shutdownErr = DeadlineExceeded

\* C25 as stated: whenever Run returns nil, the context had been cancelled,
\* Shutdown was invoked and returned nil, ListenAndServe returned
\* ErrServerClosed and every cleanup was executed.
C25_Original ==
    (outcome = "returned" /\ result = Nil)
        => /\ CtxDone
           /\ sdCalls = 1
           /\ sdState = "returned"
           /\ shutdownErr = Nil
           /\ LSReturned
           /\ lsRet = ErrServerClosed
           /\ called = FullLog

\* C25 amended: Run returns nil either on the cancellation path, after a
\* Shutdown that returned nil, a drain that yielded nil (ListenAndServe
\* returned ErrServerClosed or nil) and a complete cleanup pass, or on the
\* serverErr case of the select when the received value is nil (ListenAndServe
\* returned nil or ErrServerClosed on its own), with no Shutdown and no cleanup.
C25_SuccessPaths ==
    (outcome = "returned" /\ result = Nil)
        => /\ LSReturned
           /\ lsRet \in {ErrServerClosed, Nil}
           /\ \/ /\ branch = "ctxDone"
                 /\ CtxDone
                 /\ sdCalls = 1
                 /\ sdState = "returned"
                 /\ shutdownErr = Nil
                 /\ srvErr = Nil
                 /\ called = FullLog
              \/ /\ branch = "serverErr"
                 /\ pc = "Failed"
                 /\ sdCalls = 0
                 /\ called = <<>>

C25_Witness ==
    /\ pc = "Terminated"
    /\ outcome = "returned"
    /\ result = Nil
    /\ lsRet = ErrServerClosed
    /\ gpc = "exited"
    /\ sigRecv
    /\ ~parentDone
    /\ Len(Cleanups) = 2
    /\ called = FullLog

\* C26: when Run has ended on the cancellation path and some cleanup panics,
\* Run ended by re-raising the first panic and returned no error value, also
\* when the drained service error or the shutdown error is non-nil.
C26_FaultSupersedes ==
    (pc = "Terminated" /\ \E i \in 1..Len(Cleanups) : Cleanups[i])
        => /\ outcome = "panicked"
           /\ raised = FirstPanicking
           /\ result = Nil

C26_Witness ==
    /\ pc = "Terminated"
    /\ outcome = "panicked"
    /\ srvErr # Nil
    /\ shutdownErr # Nil
    /\ raised = FirstPanicking

\* C27: a step that invokes Shutdown is the first such step of the invocation,
\* is taken with the context done and the ctx.Done case chosen, and before any
\* cleanup was called; while the coordinator is in its select or before it,
\* Shutdown has not been invoked.
C27_ShutdownOnceAfterDone ==
    [][/\ sdCalls' # sdCalls
              => /\ sdCalls = 0
                 /\ sdCalls' = 1
                 /\ CtxDone
                 /\ branch = "ctxDone"
                 /\ pc = "CancelReceived"
                 /\ called = <<>>
                 /\ ~running
       /\ pc' \in {"Starting", "Running"} => (sdCalls' = 0 /\ sdState' = "idle")]_vars

C27_Witness ==
    /\ pc = "ShuttingDown"
    /\ sdState = "running"
    /\ sdCalls = 1
    /\ cancelledAt.pc = "Running"
    /\ called = <<>>

\* C28: whenever the goroutine is at its send, the send can complete at once:
\* the buffer slot of serverErr is free, whatever the coordinator is doing;
\* whenever it is at close(serverErr), the channel is still open.
C28_NeverBlocks ==
    /\ gpc = "returned" => (ENABLED GoSend /\ chanBuf = <<>> /\ sends = 0)
    /\ gpc = "closing" => (ENABLED GoClose /\ ~chanClosed /\ closes = 0)
    /\ gpc = "exited" => (chanClosed /\ sends <= 1 /\ closes = 1)

C28_Witness ==
    /\ pc = "ShuttingDown"
    /\ gpc = "closing"
    /\ sends = 1
    /\ chanBuf = <<errListen>>

\* C29: once Run has ended, by return on either path or by a re-raised panic,
\* the signal registration is released and the shutdown context, if one was
\* created, is no longer active; the registration is held until then, and the
\* shutdown context is cancelled only after the complete cleanup pass.
C29_Released ==
    /\ outcome # "none"
           => /\ ~sigRegistered
              /\ sdCtx # "active"
              /\ branch = "serverErr" => sdCtx = "none"
              /\ branch = "ctxDone" => sdCtx \in {"cancelled", "expired"}
    /\ (outcome = "none" /\ pc # "Starting") => sigRegistered
    /\ sdCtx = "cancelled"
           => (pc = "Terminated" /\ ~running /\ Len(called) = Len(Cleanups))

C29_Witness ==
    /\ outcome = "panicked"
    /\ sdCtx = "cancelled"
    /\ ~sigRegistered
    /\ sigRecv
    /\ Len(called) = 3

\* C23: with a service whose ListenAndServe returns once it can, a Shutdown
\* that returns, cleanups that terminate and a context that is eventually
\* cancelled, Run eventually ends: it returns or re-raises a cleanup panic.
C23_Termination == <>(outcome # "none" /\ pc \in {"Failed", "Terminated"})

C23_Witness ==
    /\ pc = "Terminated"
    /\ outcome = "panicked"
    /\ listenFunc = "blockUntilShutdown"
    /\ lsRet = ErrServerClosed
    /\ cancelledAt.pc = "Running"
    /\ cancelledAt.gpc = "listening"

\* C24 as stated: once Shutdown has returned, Run eventually ends, whether or
\* not ListenAndServe ever returns.
C24_Original == (sdState = "returned") ~> (pc = "Terminated")

\* C24 amended: once Shutdown has returned and ListenAndServe has returned,
\* Run eventually runs the cleanups and ends; until ListenAndServe returns the
\* coordinator stays blocked in the receive that follows Shutdown.
C24_UnblockedByBoth == (sdState = "returned" /\ LSReturned) ~> (pc = "Terminated")

C24_Witness ==
    /\ pc = "Terminated"
    /\ outcome = "returned"
    /\ shutdownFunc = "honours"
    /\ shutdownErr = DeadlineExceeded
    /\ result = DeadlineExceeded
    /\ lsRet = ErrServerClosed
    /\ called = FullLog

====
